---- MODULE Spec2Model ----
(***************************************************************************)
(* The meeting processing pipeline of meeting-ai: the start-processing     *)
(* trigger (POST /api/process/[id]), the orchestrator processMeeting, the  *)
(* transcription and analysis clients as far as they decide the run's      *)
(* control flow, the in-memory rate limiter and the DELETE of a meeting.   *)
(* One meeting row is followed; each request r of Reqs is one HTTP request *)
(* for it, and an accepted request starts the processMeeting run with the  *)
(* same number.  An action is one stretch of a handler between two awaits  *)
(* that touch shared state.  The providers and the settings table are the  *)
(* environment: each call of them has every outcome the code tells apart.  *)
(* prisma.$transaction commits as one step or not at all, and a Prisma     *)
(* call that names a meeting row that is gone throws.                      *)
(***************************************************************************)
EXTENDS Integers, Sequences, FiniteSets, TLC

\* Bounds of the model.
MaxReq == 2
MaxPolls == 5
MaxTime == 3
MaxUtterances == 4
MaxTokens == 4
MaxSpeakers == 13
MaxProjectReqs == 2
MaxPatchSpeakers == 2
MaxLimit == 3
MaxWindow == 2

\* RATE_LIMITS.process (time is counted in ticks of 30 s).
ProcessLimit == 5
ProcessWindow == 2

\* RATE_LIMITS.upload (the hour in the same ticks).
UploadLimit == 10
UploadWindow == 120

\* pollTranscript waits 3000 ms between two polls (counted in seconds).
PollInterval == 3

Reqs == 1..MaxReq
Owner == "u1"
Users == {"u1", "u2"}
Anonymous == "anonymous"

ProcessingStatus == {"PENDING", "TRANSCRIBING", "ANALYZING", "COMPLETED", "FAILED"}

Null == "null"

\* What a step can throw: an Error with its message, or a value that is not an Error.
Err(msg) == [isError |-> TRUE, message |-> msg]
NonError == [isError |-> FALSE, message |-> "thrown value"]
NoErr == [isError |-> FALSE, message |-> "none"]

VARIABLES
    meeting,      \* the Meeting row: exists, userId, status, processingError, duration, language, processedAt
    transcripts,  \* Transcript rows of the meeting
    utterances,   \* Utterance rows of the meeting's transcripts
    speakers,     \* Speaker rows of the meeting
    analyses,     \* Analysis rows of the meeting
    fileExists,   \* the audio file at meeting.storagePath is on disk
    store,        \* apiRateLimiter.store, by key: process:<user id> or upload:<user id>
    now,          \* Date.now(), in ticks
    req,          \* each request: where its POST handler stands, its session user, its response
    run,          \* each processMeeting run: where it stands and its local values
    log,          \* the statuses each run has written, in order
    thrown,       \* the value that entered each run's catch branch
    rejected,     \* the value each run's promise was rejected with
    del,          \* where the DELETE handler stands
    call          \* a call of a client function followed by itself: its input, where it stands, its result

pipelineVars == <<meeting, transcripts, utterances, speakers, analyses, fileExists,
                  store, now, req, run, log, thrown, rejected, del>>

vars == <<pipelineVars, call>>

dbVars == <<meeting, transcripts, utterances, speakers, analyses>>
rowVars == <<transcripts, utterances, speakers, analyses>>
runVars == <<run, log, thrown, rejected>>

\* No client function is followed by itself.
NoCall == [fn |-> "none"]

----
\* The rate limiter.

NoEntry == [count |-> 0, resetAt |-> 0]

\* The keys the handlers give the limiter: `process:${session.user.id}` and
\* `upload:${session.user.id}`.
Key(kind, user) == <<kind, user>>
Keys == {Key(kind, user) : kind \in {"process", "upload"}, user \in Users}

\* A check that admits without counting, once the window is open.
checkEntryUncounted(entry, limit, windowMs) ==
    IF entry = NoEntry \/ now >= entry.resetAt
    THEN [count |-> 1, resetAt |-> now + windowMs]
    ELSE entry

\* A check that starts the window again when it rejects.
checkEntryRestartOnReject(entry, limit, windowMs) ==
    IF entry = NoEntry \/ now >= entry.resetAt
    THEN [count |-> 1, resetAt |-> now + windowMs]
    ELSE IF entry.count >= limit
         THEN [entry EXCEPT !.resetAt = now + windowMs]
         ELSE [entry EXCEPT !.count = @ + 1]

\* RateLimiter.check: the entry it leaves for the key.
checkEntry(entry, limit, windowMs) ==
    IF entry = NoEntry \/ now >= entry.resetAt
    THEN [count |-> 1, resetAt |-> now + windowMs]
    ELSE IF entry.count >= limit
         THEN entry
         ELSE [entry EXCEPT !.count = @ + 1]

\* A check that still lets a request pass when the count has reached the limit.
checkResultOffByOne(entry, limit, windowMs) ==
    IF entry = NoEntry \/ now >= entry.resetAt
    THEN [success |-> TRUE, remaining |-> limit - 1]
    ELSE IF entry.count > limit
         THEN [success |-> FALSE, remaining |-> 0]
         ELSE [success |-> TRUE, remaining |-> limit - (entry.count + 1)]

\* RateLimiter.check: the result it returns.
checkResult(entry, limit, windowMs) ==
    IF entry = NoEntry \/ now >= entry.resetAt
    THEN [success |-> TRUE, remaining |-> limit - 1]
    ELSE IF entry.count >= limit
         THEN [success |-> FALSE, remaining |-> 0]
         ELSE [success |-> TRUE, remaining |-> limit - (entry.count + 1)]

----
\* The transcription client's mapping of the provider's result (step 4).

\* The provider results a completed job can carry: its utterances' speaker ids
\* (<<>> also stands for utterances: null).
JobResults == {<<>>, <<"A", "B", "A">>}

\* A mapSpeakerToIndex that numbers the speakers from 1.
speakerMapAfterFromOne(speaker, speakerMap) ==
    IF speaker \in DOMAIN speakerMap
    THEN speakerMap
    ELSE speakerMap @@ (speaker :> Cardinality(DOMAIN speakerMap) + 1)

\* mapSpeakerToIndex: the speakerMap after the call.
speakerMapAfter(speaker, speakerMap) ==
    IF speaker \in DOMAIN speakerMap
    THEN speakerMap
    ELSE speakerMap @@ (speaker :> Cardinality(DOMAIN speakerMap))

\* mapSpeakerToIndex: the index it returns.
mapSpeakerToIndex(speaker, speakerMap) == speakerMapAfter(speaker, speakerMap)[speaker]

RECURSIVE mapFrom(_, _, _)
mapFrom(ids, i, speakerMap) ==
    IF i > Len(ids)
    THEN <<>>
    ELSE <<mapSpeakerToIndex(ids[i], speakerMap)>>
         \o mapFrom(ids, i + 1, speakerMapAfter(ids[i], speakerMap))

\* result.utterances?.map(...) || []: the speaker index of each utterance.
mapUtterances(ids) == mapFrom(ids, 1, <<>>)

\* String(n) as its decimal digits, for 0 <= n < 100.
digits(n) == IF n < 10 THEN <<n>> ELSE <<n \div 10, n % 10>>

\* a < b as Array.prototype.sort() without a comparator orders them: by their strings.
sortBefore(a, b) ==
    LET s == digits(a)
        t == digits(b)
    IN \/ s[1] < t[1]
       \/ s[1] = t[1] /\ Len(s) < Len(t)
       \/ s[1] = t[1] /\ Len(s) = 2 /\ Len(t) = 2 /\ s[2] < t[2]

RECURSIVE sortSet(_)
sortSet(S) ==
    IF S = {}
    THEN <<>>
    ELSE LET first == CHOOSE x \in S : \A y \in S \ {x} : sortBefore(x, y)
         IN <<first>> \o sortSet(S \ {first})

\* [...new Set(utterances.map((u) => u.speaker))].sort()
speakersOf(utts) == sortSet({utts[i] : i \in DOMAIN utts})

\* transcribeAudio's return value, as far as the orchestrator stores it.
TranscriptionResult(ids) ==
    LET utts == mapUtterances(ids)
    IN [utterances |-> utts, speakers |-> speakersOf(utts)]

NoResult == [utterances |-> <<>>, speakers |-> <<>>]

----
\* The analysis client's return value, as far as the orchestrator stores it:
\* the parsed object, or the fallback of the catch branch.
ParsedAnalysis == [summary |-> "summary", speakerNames |-> {[speakerIndex |-> 0, name |-> "Ana"]}]
FallbackAnalysis == [summary |-> "raw response", speakerNames |-> {}]
NoAnalysis == [summary |-> Null, speakerNames |-> {}]

----
\* Responses of the trigger.

NoResponse == [status |-> 0, error |-> "none"]
Response(st, msg) == [status |-> st, error |-> msg]

\* A run that has not started: its position and its locals (apiKey: the key the client
\* in progress has read).
IdleRun == [pc |-> "none", result |-> NoResult, analysis |-> NoAnalysis, apiKey |-> Null]

\* The meeting row as the upload creates it, and the absence of the row.
NewMeeting == [exists |-> TRUE, userId |-> Owner, status |-> "PENDING",
               processingError |-> Null, duration |-> 0, language |-> 0, processedAt |-> 0]
NoMeeting == [exists |-> FALSE, userId |-> Null, status |-> Null,
              processingError |-> Null, duration |-> 0, language |-> 0, processedAt |-> 0]

Init ==
    /\ meeting = NewMeeting
    /\ transcripts = {}
    /\ utterances = {}
    /\ speakers = {}
    /\ analyses = {}
    /\ fileExists = TRUE
    /\ store \in {[key \in Keys |-> IF key = Key("process", Owner) THEN entry ELSE NoEntry]
                   : entry \in {NoEntry, [count |-> ProcessLimit - 1, resetAt |-> ProcessWindow]}}
    /\ now = 0
    /\ req = [r \in Reqs |-> [pc |-> "start", user |-> Anonymous, response |-> NoResponse]]
    /\ run = [r \in Reqs |-> IdleRun]
    /\ log = [r \in Reqs |-> <<>>]
    /\ thrown = [r \in Reqs |-> NoErr]
    /\ rejected = [r \in Reqs |-> NoErr]
    /\ del = "idle"
    /\ call = NoCall

----
\* POST /api/process/[id]

\* The trigger without its check for a COMPLETED meeting.
TriggerResponseNoCompletedCheck(m, user) ==
    IF ~m.exists THEN Response(404, "Meeting not found")
    ELSE IF m.userId # user THEN Response(403, "Unauthorized")
    ELSE IF m.status \in {"TRANSCRIBING", "ANALYZING"}
         THEN Response(400, "Meeting is already being processed")
    ELSE Response(200, "Processing started")

\* The trigger without its check for a meeting in TRANSCRIBING or ANALYZING.
TriggerResponseNoInFlightCheck(m, user) ==
    IF ~m.exists THEN Response(404, "Meeting not found")
    ELSE IF m.userId # user THEN Response(403, "Unauthorized")
    ELSE IF m.status = "COMPLETED" THEN Response(400, "Meeting already processed")
    ELSE Response(200, "Processing started")

\* The response the trigger gives once it has read the meeting (lines 40 to 74).
TriggerResponse(m, user) ==
    IF ~m.exists THEN Response(404, "Meeting not found")
    ELSE IF m.userId # user THEN Response(403, "Unauthorized")
    ELSE IF m.status = "COMPLETED" THEN Response(400, "Meeting already processed")
    ELSE IF m.status \in {"TRANSCRIBING", "ANALYZING"}
         THEN Response(400, "Meeting is already being processed")
    ELSE Response(200, "Processing started")

Respond(r, resp) == [req EXCEPT ![r] = [pc |-> "done", user |-> Anonymous, response |-> resp]]

\* auth() and the rate limit check.  Requests are numbered in their order of arrival.
PostBegin(r) ==
    /\ req[r].pc = "start"
    /\ \A q \in Reqs : q < r => req[q].pc # "start"
    /\ \E user \in Users \cup {Anonymous} :
        IF user = Anonymous
        THEN /\ req' = Respond(r, Response(401, "Unauthorized"))
             /\ UNCHANGED store
        ELSE LET key == Key("process", user)
                 rateLimitResult == checkResult(store[key], ProcessLimit, ProcessWindow)
             IN /\ store' = [store EXCEPT ![key] = checkEntry(@, ProcessLimit, ProcessWindow)]
                /\ req' = IF rateLimitResult.success
                          THEN [req EXCEPT ![r].pc = "lookup", ![r].user = user]
                          ELSE Respond(r, Response(429, "Too many processing requests"))
    /\ UNCHANGED <<dbVars, fileExists, now, call, runVars, del>>

\* The trigger as it would be with a claim on the meeting: a request is refused while
\* another request's run has started and not returned.
PostLookupClaimed(r) ==
    /\ req[r].pc = "lookup"
    /\ LET claimed == \E q \in Reqs \ {r} :
                          run[q].pc \notin {"none", "resolved", "rejected", "logged"}
           resp == IF claimed /\ meeting.exists /\ meeting.userId = req[r].user
                   THEN Response(400, "Meeting is already being processed")
                   ELSE TriggerResponse(meeting, req[r].user)
       IN /\ req' = Respond(r, resp)
          /\ run' = IF resp.status = 200 THEN [run EXCEPT ![r].pc = "find"] ELSE run
    /\ UNCHANGED <<dbVars, fileExists, store, now, call, log, thrown, rejected, del>>

\* prisma.meeting.findUnique, the checks on what it returned and, when they pass,
\* the call of processMeeting, which runs up to its own findUnique.
PostLookup(r) ==
    /\ req[r].pc = "lookup"
    /\ LET resp == TriggerResponse(meeting, req[r].user)
       IN /\ req' = Respond(r, resp)
          /\ run' = IF resp.status = 200 THEN [run EXCEPT ![r].pc = "find"] ELSE run
    /\ UNCHANGED <<dbVars, fileExists, store, now, call, log, thrown, rejected, del>>

----
\* processMeeting

MeetingNotFound == Err("Meeting not found")
RecordNotFound == Err("Record to update not found")
ForeignKeyFailed == Err("Foreign key constraint failed")
AssemblyKeyMissing == Err("AssemblyAI API key not configured. Please add it in Settings.")
ReadFileFailed == Err("ENOENT: no such file or directory")
UploadFailed == Err("AssemblyAI upload failed")
CreationFailed == Err("AssemblyAI transcript creation failed")
PollingFailed == Err("AssemblyAI polling failed")
TranscriptionFailed == Err("AssemblyAI transcription failed")
GeminiKeyMissing == Err("Gemini API key not configured. Please add it in Settings.")
GeminiFailed == Err("Gemini request failed")

Goto(r, pc) == [run EXCEPT ![r].pc = pc]

\* A step inside the try block throws e: control enters the catch branch.
Throw(r, e) ==
    /\ run' = [run EXCEPT ![r].pc = "catch", ![r].apiKey = Null]
    /\ thrown' = [thrown EXCEPT ![r] = e]

\* prisma.meeting.update of the status (and what goes with it), logged for the run.
WriteStatus(r, status, processingError) ==
    /\ meeting' = [meeting EXCEPT !.status = status, !.processingError = processingError]
    /\ log' = [log EXCEPT ![r] = Append(@, status)]

\* Lines 9 to 15: the run's own read of the meeting.
FindMeeting(r) ==
    /\ run[r].pc = "find"
    /\ IF meeting.exists
       THEN /\ run' = Goto(r, "setTranscribing")
            /\ UNCHANGED rejected
       ELSE /\ run' = Goto(r, "rejected")
            /\ rejected' = [rejected EXCEPT ![r] = MeetingNotFound]
    /\ UNCHANGED <<dbVars, fileExists, store, now, call, req, log, thrown, del>>

\* Lines 19 to 22.
SetTranscribing(r) ==
    /\ run[r].pc = "setTranscribing"
    /\ IF meeting.exists
       THEN /\ WriteStatus(r, "TRANSCRIBING", Null)
            /\ run' = Goto(r, "getKey")
            /\ UNCHANGED thrown
       ELSE /\ Throw(r, RecordNotFound)
            /\ UNCHANGED <<meeting, log>>
    /\ UNCHANGED <<rowVars, fileExists, store, now, call, req, rejected, del>>

\* getApiKey: the decrypted value of the Setting row of the key, or null when there is
\* no row or it does not decrypt.  The settings are what the user left them at the
\* time of the read.
ApiKeyValues == {Null, "key"}

\* A transcribeAudio that goes on with whatever getApiKey returned.
GetAssemblyAIApiKeyUnchecked(r) ==
    /\ run[r].pc = "getKey"
    /\ \E apiKey \in ApiKeyValues :
        run' = [run EXCEPT ![r].pc = "readFile", ![r].apiKey = apiKey]
    /\ UNCHANGED <<dbVars, fileExists, store, now, call, req, log, thrown, rejected, del>>

\* transcribeAudio: getAssemblyAIApiKey.
GetAssemblyAIApiKey(r) ==
    /\ run[r].pc = "getKey"
    /\ \E apiKey \in ApiKeyValues :
        IF apiKey # Null
        THEN /\ run' = [run EXCEPT ![r].pc = "readFile", ![r].apiKey = apiKey]
             /\ UNCHANGED thrown
        ELSE Throw(r, AssemblyKeyMissing)
    /\ UNCHANGED <<dbVars, fileExists, store, now, call, req, log, rejected, del>>

\* transcribeAudio: readFile(audioPath).
ReadAudio(r) ==
    /\ run[r].pc = "readFile"
    /\ IF fileExists
       THEN /\ run' = Goto(r, "upload")
            /\ UNCHANGED thrown
       ELSE Throw(r, ReadFileFailed)
    /\ UNCHANGED <<dbVars, fileExists, store, now, call, req, log, rejected, del>>

\* uploadAudio: the provider answers ok or not.
UploadAudio(r) ==
    /\ run[r].pc = "upload"
    /\ \E ok \in BOOLEAN :
        IF ok
        THEN /\ run' = Goto(r, "create")
             /\ UNCHANGED thrown
        ELSE Throw(r, UploadFailed)
    /\ UNCHANGED <<dbVars, fileExists, store, now, call, req, log, rejected, del>>

\* createTranscript: the provider answers ok or not.
CreateTranscript(r) ==
    /\ run[r].pc = "create"
    /\ \E ok \in BOOLEAN :
        IF ok
        THEN /\ run' = Goto(r, "poll")
             /\ UNCHANGED thrown
        ELSE Throw(r, CreationFailed)
    /\ UNCHANGED <<dbVars, fileExists, store, now, call, req, log, rejected, del>>

\* pollTranscript, one turn of its loop, and on completion the mapping of the result.
PollTranscript(r) ==
    /\ run[r].pc = "poll"
    /\ \/ /\ run' = run
          /\ UNCHANGED thrown
       \/ \E ids \in JobResults :
              /\ run' = [run EXCEPT ![r].pc = "setAnalyzing", ![r].apiKey = Null,
                                    ![r].result = TranscriptionResult(ids)]
              /\ UNCHANGED thrown
       \/ Throw(r, TranscriptionFailed)
       \/ Throw(r, PollingFailed)
    /\ UNCHANGED <<dbVars, fileExists, store, now, call, req, log, rejected, del>>

\* The orchestrator without its update of the status to ANALYZING.
SetAnalyzingSkipped(r) ==
    /\ run[r].pc = "setAnalyzing"
    /\ run' = Goto(r, "geminiKey")
    /\ UNCHANGED <<dbVars, fileExists, store, now, call, req, log, thrown, rejected, del>>

\* Lines 31 to 34.
SetAnalyzing(r) ==
    /\ run[r].pc = "setAnalyzing"
    /\ IF meeting.exists
       THEN /\ WriteStatus(r, "ANALYZING", meeting.processingError)
            /\ run' = Goto(r, "geminiKey")
            /\ UNCHANGED thrown
       ELSE /\ Throw(r, RecordNotFound)
            /\ UNCHANGED <<meeting, log>>
    /\ UNCHANGED <<rowVars, fileExists, store, now, call, req, rejected, del>>

\* analyzeMeeting: getApiKey(API_KEYS.gemini).
GetGeminiApiKey(r) ==
    /\ run[r].pc = "geminiKey"
    /\ \E apiKey \in ApiKeyValues :
        IF apiKey # Null
        THEN /\ run' = [run EXCEPT ![r].pc = "generate", ![r].apiKey = apiKey]
             /\ UNCHANGED thrown
        ELSE Throw(r, GeminiKeyMissing)
    /\ UNCHANGED <<dbVars, fileExists, store, now, call, req, log, rejected, del>>

\* analyzeMeeting: model.generateContent and the parsing of its response.
GenerateContent(r) ==
    /\ run[r].pc = "generate"
    /\ \/ \E analysisResult \in {ParsedAnalysis, FallbackAnalysis} :
              /\ run' = [run EXCEPT ![r].pc = "save", ![r].apiKey = Null,
                                    ![r].analysis = analysisResult]
              /\ UNCHANGED thrown
       \/ Throw(r, GeminiFailed)
       \/ Throw(r, NonError)
    /\ UNCHANGED <<dbVars, fileExists, store, now, call, req, log, rejected, del>>

\* The rows the save transaction creates for run r.
speakerLabel(analysisResult, speakerIndex) ==
    IF \E s \in analysisResult.speakerNames : s.speakerIndex = speakerIndex
    THEN (CHOOSE s \in analysisResult.speakerNames : s.speakerIndex = speakerIndex).name
    ELSE Null

speakerRecords(r) ==
    LET list == run[r].result.speakers
    IN {[run |-> r, speakerIndex |-> list[i], label |-> speakerLabel(run[r].analysis, list[i])]
        : i \in DOMAIN list}

\* Utterance rows with their positions counted from 1.
utteranceRecordsFromOne(r) ==
    LET utts == run[r].result.utterances
    IN {[run |-> r, orderIndex |-> i, speakerIndex |-> utts[i]] : i \in DOMAIN utts}

utteranceRecords(r) ==
    LET utts == run[r].result.utterances
    IN {[run |-> r, orderIndex |-> i - 1, speakerIndex |-> utts[i]] : i \in DOMAIN utts}

transcriptRecord(r) == [run |-> r, fullText |-> run[r].result.utterances]

analysisRecord(r) == [run |-> r, summary |-> run[r].analysis.summary]

\* A database that takes rows for a meeting that is not there.
canSaveUnreferenced(r) ==
    \A u \in utteranceRecords(r) : \E s \in speakerRecords(r) : s.speakerIndex = u.speakerIndex

\* speakerMap.get(u.speaker) is defined for every utterance, and the meeting row the
\* new rows refer to exists.
canSave(r) ==
    /\ meeting.exists
    /\ \A u \in utteranceRecords(r) : \E s \in speakerRecords(r) : s.speakerIndex = u.speakerIndex

\* A transaction that does not clean up the rows of previous attempts.
deleteNothing(rows) == rows

\* deleteMany({ where: { meetingId } }): what is left of the meeting's rows.
deleteMany(rows) == {}

\* Lines 58 to 133: the transaction, which commits as one step or throws and changes nothing.
SaveResults(r) ==
    /\ run[r].pc = "save"
    /\ IF canSave(r)
       THEN /\ utterances' = deleteMany(utterances) \cup utteranceRecords(r)
            /\ transcripts' = deleteMany(transcripts) \cup {transcriptRecord(r)}
            /\ speakers' = deleteMany(speakers) \cup speakerRecords(r)
            /\ analyses' = deleteMany(analyses) \cup {analysisRecord(r)}
            /\ meeting' = [meeting EXCEPT !.status = "COMPLETED", !.duration = r,
                                          !.language = r, !.processedAt = r]
            /\ log' = [log EXCEPT ![r] = Append(@, "COMPLETED")]
            /\ run' = [run EXCEPT ![r] = [IdleRun EXCEPT !.pc = "resolved"]]
            /\ UNCHANGED thrown
       ELSE /\ Throw(r, ForeignKeyFailed)
            /\ UNCHANGED <<dbVars, log>>
    /\ UNCHANGED <<fileExists, store, now, call, req, rejected, del>>

\* The message taken from whatever was thrown, Error or not.
errorMessageUnchecked(error) == error.message

\* error instanceof Error ? error.message : "Unknown error"
errorMessage(error) == IF error.isError THEN error.message ELSE "Unknown error"

\* The catch branch as it would be if it rethrew without writing anything.
CatchErrorRethrowsOnly(r) ==
    /\ run[r].pc = "catch"
    /\ rejected' = [rejected EXCEPT ![r] = thrown[r]]
    /\ run' = [run EXCEPT ![r] = [IdleRun EXCEPT !.pc = "rejected"]]
    /\ UNCHANGED <<dbVars, fileExists, store, now, call, req, log, thrown, del>>

\* Lines 136 to 150: the catch branch.
CatchError(r) ==
    /\ run[r].pc = "catch"
    /\ IF meeting.exists
       THEN /\ WriteStatus(r, "FAILED", errorMessage(thrown[r]))
            /\ rejected' = [rejected EXCEPT ![r] = thrown[r]]
       ELSE /\ rejected' = [rejected EXCEPT ![r] = RecordNotFound]
            /\ UNCHANGED <<meeting, log>>
    /\ run' = [run EXCEPT ![r] = [IdleRun EXCEPT !.pc = "rejected"]]
    /\ UNCHANGED <<rowVars, fileExists, store, now, call, req, thrown, del>>

\* The trigger's .catch callback (lines 67 to 69): the rejection is logged and dropped.
LogBackgroundFailure(r) ==
    /\ run[r].pc = "rejected"
    /\ run' = Goto(r, "logged")
    /\ thrown' = [thrown EXCEPT ![r] = NoErr]
    /\ rejected' = [rejected EXCEPT ![r] = NoErr]
    /\ log' = [log EXCEPT ![r] = <<>>]
    /\ UNCHANGED <<dbVars, fileExists, store, now, call, req, del>>

----
\* DELETE /api/meetings/[id]

\* auth(), findUnique, the ownership check and prisma.meeting.delete, which cascades.
\* A request that is answered 401, 404 or 403 changes nothing.
DeleteMeeting ==
    /\ del = "idle"
    /\ \E user \in Users \cup {Anonymous} :
        IF user # Anonymous /\ meeting.exists /\ meeting.userId = user
        THEN /\ meeting' = NoMeeting
             /\ transcripts' = {}
             /\ utterances' = {}
             /\ speakers' = {}
             /\ analyses' = {}
             /\ del' = "unlink"
        ELSE UNCHANGED <<dbVars, del>>
    /\ UNCHANGED <<fileExists, store, now, call, req, runVars>>

\* unlink(meeting.storagePath) and the 200 response.
UnlinkAudio ==
    /\ del = "unlink"
    /\ fileExists' = FALSE
    /\ del' = "done"
    /\ UNCHANGED <<dbVars, store, now, call, req, runVars>>

----
Next ==
    \/ \E r \in Reqs :
        \/ PostBegin(r)
        \/ PostLookup(r)
        \/ FindMeeting(r)
        \/ SetTranscribing(r)
        \/ GetAssemblyAIApiKey(r)
        \/ ReadAudio(r)
        \/ UploadAudio(r)
        \/ CreateTranscript(r)
        \/ PollTranscript(r)
        \/ SetAnalyzing(r)
        \/ GetGeminiApiKey(r)
        \/ GenerateContent(r)
        \/ SaveResults(r)
        \/ CatchError(r)
        \/ LogBackgroundFailure(r)
    \/ DeleteMeeting
    \/ UnlinkAudio

Spec == Init /\ [][Next]_vars

----
\* A meeting that an earlier attempt has left FAILED while the rows another attempt
\* had saved are still there (attempt 0: an accepted request before those of Reqs).
StaleUtterances == <<0, 1, 0>>

InitRetry ==
    /\ meeting = [NewMeeting EXCEPT !.status = "FAILED",
                                    !.processingError = UploadFailed.message]
    /\ transcripts = {[run |-> 0, fullText |-> StaleUtterances]}
    /\ utterances = {[run |-> 0, orderIndex |-> i - 1, speakerIndex |-> StaleUtterances[i]]
                      : i \in DOMAIN StaleUtterances}
    /\ speakers = {[run |-> 0, speakerIndex |-> i, label |-> Null] : i \in {0, 1}}
    /\ analyses = {[run |-> 0, summary |-> FallbackAnalysis.summary]}
    /\ fileExists = TRUE
    /\ store = [key \in Keys |-> NoEntry]
    /\ now = 0
    /\ req = [r \in Reqs |-> [pc |-> "start", user |-> Anonymous, response |-> NoResponse]]
    /\ run = [r \in Reqs |-> IdleRun]
    /\ log = [r \in Reqs |-> <<>>]
    /\ thrown = [r \in Reqs |-> NoErr]
    /\ rejected = [r \in Reqs |-> NoErr]
    /\ del = "idle"
    /\ call = NoCall

SpecRetry == InitRetry /\ [][Next]_vars

----
\* pollTranscript followed by itself, poll by poll, in a run that has reached it.

\* What one poll can be answered: the HTTP response is ok or not, and the job's status
\* and error as its body gives them.
JobStatuses == {"queued", "processing", "completed", "error"}
PollAnswers ==
    {[ok |-> FALSE, status |-> Null, error |-> Null]}
    \cup {[ok |-> TRUE, status |-> st, error |-> IF st = "error" THEN "bad audio" ELSE Null]
           : st \in JobStatuses}

\* The messages of the two errors pollTranscript throws.
PollingFailedMessage(answer) == <<"AssemblyAI polling failed: ", "statusText">>
TranscriptionFailedMessage(answer) == <<"AssemblyAI transcription failed: ", answer.error>>

\* A pollTranscript that gives up after two polls.
pollOutcomeCapped(answer, polls) ==
    IF ~answer.ok THEN [pc |-> "thrown", value |-> PollingFailedMessage(answer)]
    ELSE IF answer.status = "completed" THEN [pc |-> "returned", value |-> answer]
    ELSE IF answer.status = "error"
         THEN [pc |-> "thrown", value |-> TranscriptionFailedMessage(answer)]
    ELSE IF polls >= 2 THEN [pc |-> "thrown", value |-> <<"timed out", Null>>]
    ELSE [pc |-> "wait", value |-> Null]

\* Lines 147 to 157: where one answer takes the loop (polls: the polls made before).
pollOutcome(answer, polls) ==
    IF ~answer.ok THEN [pc |-> "thrown", value |-> PollingFailedMessage(answer)]
    ELSE IF answer.status = "completed" THEN [pc |-> "returned", value |-> answer]
    ELSE IF answer.status = "error"
         THEN [pc |-> "thrown", value |-> TranscriptionFailedMessage(answer)]
    ELSE [pc |-> "wait", value |-> Null]

\* A run of request 1 that has written TRANSCRIBING and called pollTranscript.
InitPoll ==
    /\ meeting = [NewMeeting EXCEPT !.status = "TRANSCRIBING"]
    /\ transcripts = {}
    /\ utterances = {}
    /\ speakers = {}
    /\ analyses = {}
    /\ fileExists = TRUE
    /\ store = [key \in Keys |-> IF key = Key("process", Owner)
                                   THEN [count |-> 1, resetAt |-> ProcessWindow]
                                   ELSE NoEntry]
    /\ now = 0
    /\ req = [r \in Reqs |-> IF r = 1
                              THEN [pc |-> "done", user |-> Anonymous,
                                    response |-> Response(200, "Processing started")]
                              ELSE [pc |-> "start", user |-> Anonymous,
                                    response |-> NoResponse]]
    /\ run = [r \in Reqs |-> IF r = 1
                              THEN [IdleRun EXCEPT !.pc = "poll", !.apiKey = "key"]
                              ELSE IdleRun]
    /\ log = [r \in Reqs |-> IF r = 1 THEN <<"TRANSCRIBING">> ELSE <<>>]
    /\ thrown = [r \in Reqs |-> NoErr]
    /\ rejected = [r \in Reqs |-> NoErr]
    /\ del = "idle"
    /\ call = [fn |-> "pollTranscript", pc |-> "fetch", answers |-> <<>>, waited |-> 0,
               value |-> Null]

\* Lines 143 to 157: one fetch of the polling endpoint and what follows from its answer.
PollFetch ==
    /\ call.fn = "pollTranscript"
    /\ call.pc = "fetch"
    /\ Len(call.answers) < MaxPolls
    /\ \E answer \in PollAnswers :
        LET outcome == pollOutcome(answer, Len(call.answers))
        IN call' = [call EXCEPT !.pc = outcome.pc, !.value = outcome.value,
                                !.answers = Append(@, answer)]
    /\ UNCHANGED pipelineVars

\* Line 160: the wait before the next turn of while (true).
PollWait ==
    /\ call.fn = "pollTranscript"
    /\ call.pc = "wait"
    /\ call' = [call EXCEPT !.pc = "fetch", !.waited = @ + PollInterval]
    /\ UNCHANGED pipelineVars

NextPoll == PollFetch \/ PollWait

SpecPoll == InitPoll /\ [][NextPoll]_vars

----
\* The meeting uploaded and nothing going on: no request, no run, no DELETE.
AtRest ==
    /\ meeting = NewMeeting
    /\ transcripts = {}
    /\ utterances = {}
    /\ speakers = {}
    /\ analyses = {}
    /\ fileExists = TRUE
    /\ now = 0
    /\ req = [r \in Reqs |-> [pc |-> "start", user |-> Anonymous, response |-> NoResponse]]
    /\ run = [r \in Reqs |-> IdleRun]
    /\ log = [r \in Reqs |-> <<>>]
    /\ thrown = [r \in Reqs |-> NoErr]
    /\ rejected = [r \in Reqs |-> NoErr]
    /\ del = "idle"

----
\* The limiter followed by itself: the requests of one user to one of the two limited
\* handlers, as time passes.  The entries of the other keys are left as they are found.

limitOf(kind) == IF kind = "process" THEN ProcessLimit ELSE UploadLimit
windowOf(kind) == IF kind = "process" THEN ProcessWindow ELSE UploadWindow

\* An entry that has used up its window's limit.
FullEntry(key) == [count |-> limitOf(key[1]), resetAt |-> windowOf(key[1])]

\* call.admits[t] counts the requests of the key that passed the limiter at time t.
InitLimit ==
    /\ AtRest
    /\ \E kind \in {"process", "upload"}, user \in Users, othersFull \in BOOLEAN :
        /\ store = [key \in Keys |-> IF key # Key(kind, user) /\ othersFull
                                      THEN FullEntry(key)
                                      ELSE NoEntry]
        /\ call = [fn |-> "check", kind |-> kind, user |-> user,
                   admits |-> [t \in 0..MaxTime |-> 0],
                   last |-> [status |-> 0, goesOn |-> FALSE]]

\* The handler from auth() to the limiter's verdict: 429 and return, or go on.
LimitedRequest(kind) ==
    /\ LET key == Key(kind, call.user)
           rateLimitResult == checkResult(store[key], limitOf(kind), windowOf(kind))
       IN /\ store' = [store EXCEPT ![key] = checkEntry(@, limitOf(kind), windowOf(kind))]
          /\ call' = IF rateLimitResult.success
                     THEN [call EXCEPT !.admits[now] = @ + 1,
                                       !.last = [status |-> 200, goesOn |-> TRUE]]
                     ELSE [call EXCEPT !.last = [status |-> 429, goesOn |-> FALSE]]
    /\ UNCHANGED <<dbVars, fileExists, now, req, runVars, del>>

\* POST /api/process/[id], lines 14 to 31.
LimitProcess ==
    /\ call.fn = "check"
    /\ call.kind = "process"
    /\ LimitedRequest("process")

\* POST /api/upload up to its limiter check.
LimitUpload ==
    /\ call.fn = "check"
    /\ call.kind = "upload"
    /\ LimitedRequest("upload")

\* Date.now() moves on by a tick.
Tick ==
    /\ call.fn = "check"
    /\ now < MaxTime
    /\ now' = now + 1
    /\ UNCHANGED <<dbVars, fileExists, store, req, runVars, del, call>>

NextLimit == LimitProcess \/ LimitUpload \/ Tick

SpecLimit == InitLimit /\ [][NextLimit]_vars

----
\* Step 4 of transcribeAudio followed by itself: the map over the provider's utterances.

\* The speaker ids of the provider.
SpeakerIds == {"A", "B", "C"}

RECURSIVE SeqsUpTo(_, _)
SeqsUpTo(S, n) ==
    IF n = 0
    THEN {<<>>}
    ELSE LET shorter == SeqsUpTo(S, n - 1)
         IN shorter \cup {Append(q, x) : q \in shorter, x \in S}

\* const speakerMap = new Map(), before the first utterance is mapped.
InitMap ==
    /\ AtRest
    /\ store = [key \in Keys |-> NoEntry]
    /\ \E ids \in SeqsUpTo(SpeakerIds, MaxUtterances) :
        call = [fn |-> "mapSpeakers", ids |-> ids, speakerMap |-> <<>>, out |-> <<>>]

\* The callback of result.utterances.map for the next utterance.
MapUtterance ==
    /\ call.fn = "mapSpeakers"
    /\ Len(call.out) < Len(call.ids)
    /\ LET u == call.ids[Len(call.out) + 1]
       IN call' = [call EXCEPT !.out = Append(@, mapSpeakerToIndex(u, call.speakerMap)),
                               !.speakerMap = speakerMapAfter(u, call.speakerMap)]
    /\ UNCHANGED pipelineVars

NextMap == MapUtterance

SpecMap == InitMap /\ [][NextMap]_vars

----
\* analyzeMeeting followed by itself from the model's response on, in a run that has
\* reached it, and the run's save of what it returns.

\* JavaScript values, as far as the normalisation tells them apart.
Undefined == [type |-> "undefined"]
JsNull == [type |-> "null"]
NaN == [type |-> "NaN"]
Num(n) == [type |-> "number", num |-> n]
Str(text) == [type |-> "string", str |-> text]
Arr(items) == [type |-> "array", items |-> items]

\* Whether a value counts as true, as || and the filter callback take it.
Truthy(v) ==
    CASE v.type \in {"undefined", "null", "NaN"} -> FALSE
      [] v.type = "number" -> v.num # 0
      [] v.type = "string" -> v.str # ""
      [] OTHER -> TRUE

\* a || b
Or(a, b) == IF Truthy(a) THEN a ELSE b

\* The number Math.max and Math.min make of an argument.
ToNumber(v) ==
    CASE v.type = "number" -> v
      [] v.type = "null" -> Num(0)
      [] v.type = "string" -> IF v.str = "" THEN Num(0)
                              ELSE IF v.str = "4" THEN Num(4) ELSE NaN
      [] OTHER -> NaN

MathMax(a, b) ==
    LET x == ToNumber(a)
        y == ToNumber(b)
    IN IF x = NaN \/ y = NaN THEN NaN ELSE IF x.num >= y.num THEN x ELSE y

MathMin(a, b) ==
    LET x == ToNumber(a)
        y == ToNumber(b)
    IN IF x = NaN \/ y = NaN THEN NaN ELSE IF x.num <= y.num THEN x ELSE y

\* Math.min(5, Math.max(1, t.importance || 3))
normalizeImportance(importance) == MathMin(Num(5), MathMax(Num(1), Or(importance, Num(3))))

\* a.priority || "medium"
normalizePriority(priority) == Or(priority, Str("medium"))

\* The model's response as a sequence of pieces: an opening brace, a closing brace,
\* text without braces, and the members of a well-formed JSON object.
Tokens == {"{", "}", "text", "members"}

\* response.match(/\{[\s\S]*\}/): from the first opening brace that has a closing
\* brace after it to the last closing brace; <<>> for no match.
jsonMatch(response) ==
    LET opens == {i \in DOMAIN response : response[i] = "{"}
        closes == {i \in DOMAIN response : response[i] = "}"}
    IN IF \E i \in opens, j \in closes : i < j
       THEN LET first == CHOOSE i \in opens : \A k \in opens : i <= k
                last == CHOOSE j \in closes : \A k \in closes : k <= j
            IN SubSeq(response, first, last)
       ELSE <<>>

\* JSON.parse accepts the text: it is one object, empty or with its members.
parses(text) == text \in {<<"{", "}">>, <<"{", "members", "}">>}

\* What the model can put in the importance of a topic and the priority of an item.
ImportanceValues ==
    {Undefined, JsNull, Str("high"), Str("4")} \cup {Num(n) : n \in (0 - 2)..9}
PriorityValues ==
    {Undefined, JsNull, Str(""), Str("high"), Str("medium"), Str("low"), Str("urgent")}

\* The objects JSON.parse can return for a text with members; a list is no array,
\* holds null, or holds one object.
JsonDatas ==
    [summary : {Undefined, Str("summary")},
     topics : {Undefined, Num(5), Arr(<<JsNull>>)}
              \cup {Arr(<<[type |-> "object", importance |-> v]>>) : v \in ImportanceValues},
     actionItems : {Undefined, Num(5), Arr(<<JsNull>>)}
                   \cup {Arr(<<[type |-> "object", priority |-> v]>>) : v \in PriorityValues},
     speakerNames : {Undefined,
                     Arr(<<[type |-> "object", speakerIndex |-> 0, name |-> "Ana"]>>)}]

EmptyObject ==
    [summary |-> Undefined, topics |-> Undefined, actionItems |-> Undefined,
     speakerNames |-> Undefined]

\* (list || []).map(...) throws: the list is neither falsy nor an array, or an element
\* of it has no properties to read.
mapThrows(list) ==
    /\ Truthy(list)
    /\ \/ list.type # "array"
       \/ \E i \in DOMAIN list.items : list.items[i].type \in {"null", "undefined"}

items(list) == IF Truthy(list) THEN list.items ELSE <<>>

\* Lines 139 to 164 throw.
normalizeThrows(jsonData) ==
    mapThrows(jsonData.topics) \/ mapThrows(jsonData.actionItems)
    \/ mapThrows(jsonData.speakerNames)

\* Lines 139 to 164: the parsed result.
normalized(jsonData) ==
    [summary |-> Or(jsonData.summary, Str("No summary available.")),
     topics |-> [i \in DOMAIN items(jsonData.topics) |->
                    [importance |-> normalizeImportance(items(jsonData.topics)[i].importance)]],
     actionItems |-> [i \in DOMAIN items(jsonData.actionItems) |->
                         [priority |-> normalizePriority(items(jsonData.actionItems)[i].priority)]],
     speakerNames |-> {[speakerIndex |-> sn.speakerIndex, name |-> sn.name]
                       : sn \in {items(jsonData.speakerNames)[i]
                                 : i \in DOMAIN items(jsonData.speakerNames)}}]

\* The response text as a string value.
RawText(response) == [type |-> "string", raw |-> response]

\* A catch branch that passes the parse error on.
catchParseErrorRethrown(response) ==
    [pc |-> "thrown",
     parsed |-> [summary |-> Undefined, topics |-> <<>>, actionItems |-> <<>>,
                 speakerNames |-> {}]]

\* Lines 165 to 177: the catch branch of the parsing.
catchParseError(response) ==
    [pc |-> "return",
     parsed |-> [summary |-> RawText(response), topics |-> <<>>, actionItems |-> <<>>,
                 speakerNames |-> {}]]

\* A run of request 1 that has written ANALYZING and got the model's response.
InitNorm ==
    /\ meeting = [NewMeeting EXCEPT !.status = "ANALYZING"]
    /\ transcripts = {}
    /\ utterances = {}
    /\ speakers = {}
    /\ analyses = {}
    /\ fileExists = TRUE
    /\ store = [key \in Keys |-> IF key = Key("process", Owner)
                                   THEN [count |-> 1, resetAt |-> ProcessWindow]
                                   ELSE NoEntry]
    /\ now = 0
    /\ req = [r \in Reqs |-> IF r = 1
                              THEN [pc |-> "done", user |-> Anonymous,
                                    response |-> Response(200, "Processing started")]
                              ELSE [pc |-> "start", user |-> Anonymous,
                                    response |-> NoResponse]]
    /\ run = [r \in Reqs |-> IF r = 1
                              THEN [pc |-> "generate", apiKey |-> "key",
                                    result |-> TranscriptionResult(<<"A", "B", "A">>),
                                    analysis |-> NoAnalysis]
                              ELSE IdleRun]
    /\ log = [r \in Reqs |-> IF r = 1 THEN <<"TRANSCRIBING", "ANALYZING">> ELSE <<>>]
    /\ thrown = [r \in Reqs |-> NoErr]
    /\ rejected = [r \in Reqs |-> NoErr]
    /\ del = "idle"
    /\ \E response \in SeqsUpTo(Tokens, MaxTokens) :
       \E jsonData \in IF jsonMatch(response) = <<"{", "members", "}">>
                       THEN JsonDatas
                       ELSE {EmptyObject} :
           call = [fn |-> "analyzeMeeting", pc |-> "match", response |-> response,
                   jsonData |-> jsonData, caught |-> FALSE,
                   parsed |-> [summary |-> Undefined, topics |-> <<>>, actionItems |-> <<>>,
                               speakerNames |-> {}]]

\* Lines 133 to 137: the match and JSON.parse of what matched.
ParseResponse ==
    /\ call.fn = "analyzeMeeting"
    /\ call.pc = "match"
    /\ call' = [call EXCEPT !.pc = IF parses(jsonMatch(call.response))
                                  THEN "normalize"
                                  ELSE "catch"]
    /\ UNCHANGED pipelineVars

\* Lines 139 to 164, which throw or give the parsed result.
NormalizeResponse ==
    /\ call.fn = "analyzeMeeting"
    /\ call.pc = "normalize"
    /\ call' = IF normalizeThrows(call.jsonData)
               THEN [call EXCEPT !.pc = "catch"]
               ELSE [call EXCEPT !.pc = "return", !.parsed = normalized(call.jsonData)]
    /\ UNCHANGED pipelineVars

\* Lines 165 to 177.
CatchParseError ==
    /\ call.fn = "analyzeMeeting"
    /\ call.pc = "catch"
    /\ LET handled == catchParseError(call.response)
       IN call' = [call EXCEPT !.pc = handled.pc, !.parsed = handled.parsed,
                               !.caught = TRUE]
    /\ UNCHANGED pipelineVars

\* return parsed, and the run goes on to its save transaction.
ReturnAnalysis ==
    /\ call.fn = "analyzeMeeting"
    /\ call.pc = "return"
    /\ run[1].pc = "generate"
    /\ call' = [call EXCEPT !.pc = "returned"]
    /\ run' = [run EXCEPT ![1].pc = "save", ![1].apiKey = Null,
                          ![1].analysis = [summary |-> call.parsed.summary,
                                           speakerNames |-> call.parsed.speakerNames]]
    /\ UNCHANGED <<dbVars, fileExists, store, now, req, log, thrown, rejected, del>>

NextNorm ==
    \/ ParseResponse
    \/ NormalizeResponse
    \/ CatchParseError
    \/ ReturnAnalysis
    \/ \E r \in Reqs : SaveResults(r)

SpecNorm == InitNorm /\ [][NextNorm]_vars

----
\* The sort of the speakers list followed by itself: the distinct speaker indices of
\* the mapped utterances, which are 0 .. n-1 for n speakers, put in order one by one.

\* The utterances of n speakers, each speaking once and the first one once more.
UtterancesOf(n) == IF n = 0 THEN <<>> ELSE [i \in 1..(n + 1) |-> IF i > n THEN 0 ELSE i - 1]

\* new Set(utterances.map((u) => u.speaker)), before .sort() has placed anything.
InitSort ==
    /\ AtRest
    /\ store = [key \in Keys |-> NoEntry]
    /\ \E n \in 0..MaxSpeakers :
        call = [fn |-> "sortSpeakers", utterances |-> UtterancesOf(n),
                left |-> {UtterancesOf(n)[i] : i \in DOMAIN UtterancesOf(n)},
                speakers |-> <<>>]

\* .sort() places the next element: the one its ordering puts before all that are left.
SortNext ==
    /\ call.fn = "sortSpeakers"
    /\ call.left # {}
    /\ LET next == CHOOSE x \in call.left : \A y \in call.left \ {x} : sortBefore(x, y)
       IN call' = [call EXCEPT !.left = @ \ {next}, !.speakers = Append(@, next)]
    /\ UNCHANGED pipelineVars

NextSort == SortNext

SpecSort == InitSort /\ [][NextSort]_vars

----
\* The projects of the users: POST /api/projects and PATCH /api/projects/[id], each
\* request in the steps between its awaits.

\* The names the requests carry, and name.trim().
RawNames == {"a", "a ", "b"}
Trim(name) == IF name = "a " THEN "a" ELSE name

ProjectReqs == 1..MaxProjectReqs

NoProjectRequest == [pc |-> "start", kind |-> Null, user |-> Null, id |-> 0, name |-> Null,
                     status |-> 0]

\* One project of the first user to begin with, and no request under way.
InitProjects ==
    /\ AtRest
    /\ store = [key \in Keys |-> NoEntry]
    /\ call = [fn |-> "projects",
               projects |-> {[id |-> 1, userId |-> Owner, name |-> "a"]},
               reqs |-> [q \in ProjectReqs |-> NoProjectRequest]]

\* The row findUnique({ userId_name }) or findFirst({ userId, name, NOT: { id } }) finds.
existingProject(projects, user, name, exceptId) ==
    {p \in projects : p.userId = user /\ p.name = name /\ p.id # exceptId}

\* The unique key userId_name refuses the write.
violatesUniqueKey(projects, user, name, exceptId) ==
    existingProject(projects, user, name, exceptId) # {}

Answer(q, status) == [call.reqs EXCEPT ![q].pc = "done", ![q].status = status]

\* auth(), the body, and for a rename the ownership check on the project.
ProjectBegin(q) ==
    /\ call.fn = "projects"
    /\ call.reqs[q].pc = "start"
    /\ \A o \in ProjectReqs : o < q => call.reqs[o].pc # "start"
    /\ \E kind \in {"create", "rename"}, user \in Users, name \in RawNames,
          id \in {p.id : p \in call.projects} :
        LET request == [pc |-> "check", kind |-> kind, user |-> user,
                        id |-> IF kind = "create" THEN 0 ELSE id, name |-> name, status |-> 0]
            project == CHOOSE p \in call.projects : p.id = id
        IN call' = [call EXCEPT !.reqs[q] =
                       IF kind = "rename" /\ project.userId # user
                       THEN [request EXCEPT !.pc = "done", !.status = 403]
                       ELSE request]
    /\ UNCHANGED pipelineVars

\* The check for a project of the user with the same name.
ProjectCheck(q) ==
    /\ call.fn = "projects"
    /\ call.reqs[q].pc = "check"
    /\ LET request == call.reqs[q]
           existing == existingProject(call.projects, request.user, Trim(request.name),
                                       request.id)
       IN call' = [call EXCEPT !.reqs = IF existing # {}
                                        THEN Answer(q, 409)
                                        ELSE [call.reqs EXCEPT ![q].pc = "write"]]
    /\ UNCHANGED pipelineVars

\* prisma.project.create or update, which throws on the unique key: 500 from the catch.
ProjectWrite(q) ==
    /\ call.fn = "projects"
    /\ call.reqs[q].pc = "write"
    /\ LET request == call.reqs[q]
           name == Trim(request.name)
       IN IF violatesUniqueKey(call.projects, request.user, name, request.id)
          THEN call' = [call EXCEPT !.reqs = Answer(q, 500)]
          ELSE IF request.kind = "create"
          THEN call' = [call EXCEPT
                           !.projects = @ \cup {[id |-> Cardinality(call.projects) + 1,
                                                 userId |-> request.user, name |-> name]},
                           !.reqs = Answer(q, 201)]
          ELSE call' = [call EXCEPT
                           !.projects = {IF p.id = request.id THEN [p EXCEPT !.name = name]
                                         ELSE p : p \in call.projects},
                           !.reqs = Answer(q, 200)]
    /\ UNCHANGED pipelineVars

NextProjects == \E q \in ProjectReqs : ProjectBegin(q) \/ ProjectCheck(q) \/ ProjectWrite(q)

SpecProjects == InitProjects /\ [][NextProjects]_vars

----
\* The meeting detail page of the owner, open on the meeting while one request of its
\* "Process" button and the run it starts go their way.  The meeting is not deleted.

\* The page after its first load: the meeting as uploaded, no fetch under way.
\* fetch: "none", "sent" (GET /api/meetings/[id] not yet answered) or the status the
\* answer carries on its way to setMeeting.
InitPage ==
    /\ AtRest
    /\ store = [key \in Keys |-> NoEntry]
    /\ call = [fn |-> "page", status |-> "PENDING", posted |-> FALSE, fetch |-> "none"]

\* startProcessing: response.ok, then fetchMeeting() once.
StartProcessingOk ==
    /\ call.fn = "page"
    /\ ~call.posted
    /\ req[1].pc = "done"
    /\ req[1].response.status = 200
    /\ call' = [call EXCEPT !.posted = TRUE, !.fetch = "sent"]
    /\ UNCHANGED pipelineVars

\* GET /api/meetings/[id] reads the row.
GetMeeting ==
    /\ call.fn = "page"
    /\ call.fetch = "sent"
    /\ meeting.exists
    /\ call' = [call EXCEPT !.fetch = meeting.status]
    /\ UNCHANGED pipelineVars

\* fetchMeeting: setMeeting(data).
SetMeeting ==
    /\ call.fn = "page"
    /\ call.fetch \in ProcessingStatus
    /\ call' = [call EXCEPT !.status = call.fetch, !.fetch = "none"]
    /\ UNCHANGED pipelineVars

\* The effect on meeting.status: an interval while TRANSCRIBING or ANALYZING.
intervalSet(status) == status \in {"TRANSCRIBING", "ANALYZING"}

\* The interval fires (one fetch under way at a time).
IntervalFetch ==
    /\ call.fn = "page"
    /\ intervalSet(call.status)
    /\ call.fetch = "none"
    /\ call' = [call EXCEPT !.fetch = "sent"]
    /\ UNCHANGED pipelineVars

NextPage ==
    \/ PostBegin(1)
    \/ PostLookup(1)
    \/ FindMeeting(1)
    \/ SetTranscribing(1)
    \/ GetAssemblyAIApiKey(1)
    \/ ReadAudio(1)
    \/ UploadAudio(1)
    \/ CreateTranscript(1)
    \/ PollTranscript(1)
    \/ SetAnalyzing(1)
    \/ GetGeminiApiKey(1)
    \/ GenerateContent(1)
    \/ SaveResults(1)
    \/ CatchError(1)
    \/ LogBackgroundFailure(1)
    \/ StartProcessingOk
    \/ GetMeeting
    \/ SetMeeting
    \/ IntervalFetch

SpecPage == InitPage /\ [][NextPage]_vars

----
\* The runs of a meeting that is not deleted, with a database whose operations may throw
\* for reasons of its own, and run to their end: every call returns or throws, and the
\* transcription job does not stay pending for ever.

DatabaseFailed == Err("Can't reach database server")

\* No run yet, and no failure of the catch branch's update so far.
InitLive ==
    /\ AtRest
    /\ store = [key \in Keys |-> NoEntry]
    /\ call = [fn |-> "live", lost |-> FALSE]

\* A database operation of the run throws: findUnique, an update or the transaction
\* (lines 9, 19, 31 and 58), which leads to the catch branch, or the update of the catch
\* branch itself (line 139), which leaves the status as it is.
DatabaseThrows(r) ==
    /\ call.fn = "live"
    /\ run[r].pc \in {"find", "setTranscribing", "setAnalyzing", "save", "catch"}
    /\ IF run[r].pc = "catch"
       THEN /\ run' = [run EXCEPT ![r] = [IdleRun EXCEPT !.pc = "rejected"]]
            /\ rejected' = [rejected EXCEPT ![r] = DatabaseFailed]
            /\ call' = [call EXCEPT !.lost = TRUE]
            /\ UNCHANGED thrown
       ELSE /\ Throw(r, DatabaseFailed)
            /\ UNCHANGED <<rejected, call>>
    /\ UNCHANGED <<dbVars, fileExists, store, now, req, log, del>>

\* A step of run r.
RunStep(r) ==
    \/ FindMeeting(r)
    \/ SetTranscribing(r)
    \/ GetAssemblyAIApiKey(r)
    \/ ReadAudio(r)
    \/ UploadAudio(r)
    \/ CreateTranscript(r)
    \/ PollTranscript(r)
    \/ SetAnalyzing(r)
    \/ GetGeminiApiKey(r)
    \/ GenerateContent(r)
    \/ SaveResults(r)
    \/ CatchError(r)
    \/ LogBackgroundFailure(r)
    \/ DatabaseThrows(r)

NextLive ==
    \E r \in Reqs :
        \/ PostBegin(r)
        \/ PostLookup(r)
        \/ RunStep(r)

\* Each run that can take a step takes one in the end; a turn of the poll loop that
\* finds the job pending changes nothing and is no such step.
SpecLive == InitLive /\ [][NextLive]_vars /\ \A r \in Reqs : WF_vars(RunStep(r))

----
\* PATCH /api/meetings/[id], the labels of the speakers: two meetings of two owners with
\* their Speaker rows, and one request after the other.

PatchMeetings == {"m1", "m2"}
ownerOf(m) == IF m = "m1" THEN "u1" ELSE "u2"

SpeakerRows == {"s1", "s2", "s3"}
meetingOf(s) == IF s = "s3" THEN "m2" ELSE "m1"

Labels == {"Speaker 1", "Ana"}

\* body.speakers: up to MaxPatchSpeakers entries { id, label }.
BodySpeakers ==
    UNION {[1..n -> [id : SpeakerRows, label : Labels]] : n \in 0..MaxPatchSpeakers}

NoPatch == [pc |-> "idle", user |-> Null, meeting |-> Null, speakers |-> <<>>, status |-> 0]

InitPatch ==
    /\ AtRest
    /\ store = [key \in Keys |-> NoEntry]
    /\ call = [fn |-> "patch", labels |-> [s \in SpeakerRows |-> "Speaker 1"],
               patch |-> NoPatch]

\* auth(), the body, findUnique of the meeting, and the ownership check.
PatchBegin ==
    /\ call.fn = "patch"
    /\ call.patch.pc \in {"idle", "done"}
    /\ \E user \in Users, m \in PatchMeetings, body \in BodySpeakers :
        call' = [call EXCEPT !.patch =
                    IF ownerOf(m) # user
                    THEN [pc |-> "done", user |-> user, meeting |-> m, speakers |-> <<>>,
                          status |-> 403]
                    ELSE [pc |-> "speakers", user |-> user, meeting |-> m,
                          speakers |-> body, status |-> 0]]
    /\ UNCHANGED pipelineVars

\* One turn of the loop over body.speakers: prisma.speaker.update({ where: { id } }).
PatchSpeaker ==
    /\ call.fn = "patch"
    /\ call.patch.pc = "speakers"
    /\ call.patch.speakers # <<>>
    /\ LET speaker == Head(call.patch.speakers)
       IN call' = [call EXCEPT !.labels[speaker.id] = speaker.label,
                               !.patch.speakers = Tail(@)]
    /\ UNCHANGED pipelineVars

\* The response after the loop.
PatchRespond ==
    /\ call.fn = "patch"
    /\ call.patch.pc = "speakers"
    /\ call.patch.speakers = <<>>
    /\ call' = [call EXCEPT !.patch.pc = "done", !.patch.status = 200]
    /\ UNCHANGED pipelineVars

NextPatch == PatchBegin \/ PatchSpeaker \/ PatchRespond

SpecPatch == InitPatch /\ [][NextPatch]_vars

----
\* RateLimiter.check followed by itself for any limit and window: the checks of the
\* process keys with one limit and one window, as time passes.

LimiterKeys == {Key("process", user) : user \in Users}

NoCheckResult == [success |-> FALSE, remaining |-> 0]

InitCheck ==
    /\ AtRest
    /\ store = [key \in Keys |-> NoEntry]
    /\ \E limit \in 1..MaxLimit, windowMs \in 1..MaxWindow :
        call = [fn |-> "limiter", limit |-> limit, windowMs |-> windowMs,
                key |-> Null, result |-> NoCheckResult]

\* check(key, limit, windowMs)
Check ==
    /\ call.fn = "limiter"
    /\ \E key \in LimiterKeys :
        /\ store' = [store EXCEPT ![key] = checkEntry(@, call.limit, call.windowMs)]
        /\ call' = [call EXCEPT !.key = key,
                                !.result = checkResult(store[key], call.limit, call.windowMs)]
    /\ UNCHANGED <<dbVars, fileExists, now, req, runVars, del>>

\* Date.now() moves on.
Advance ==
    /\ call.fn = "limiter"
    /\ now < MaxTime
    /\ now' = now + 1
    /\ UNCHANGED <<dbVars, fileExists, store, req, runVars, del, call>>

NextCheck == Check \/ Advance

SpecCheck == InitCheck /\ [][NextCheck]_vars

----
\* Vocabulary of the properties.

Transcribing == "TRANSCRIBING"
Analyzing == "ANALYZING"
Completed == "COMPLETED"
Failed == "FAILED"

\* The run is between its start by the trigger and its return.
InFlight(r) == run[r].pc \notin {"none", "resolved", "rejected", "logged"}

\* The step is the one in which request r's handler reads the meeting and answers.
LookupStep(r) == req[r].pc = "lookup" /\ req'[r].pc = "done"

\* The step is run r's catch branch.
CatchStep(r) == run[r].pc = "catch" /\ run'[r].pc = "rejected"

\* What the transcription step and the analysis step can throw.
TranscriptionErrors ==
    {AssemblyKeyMissing, ReadFileFailed, UploadFailed, CreationFailed, PollingFailed,
     TranscriptionFailed}
AnalysisErrors == {GeminiKeyMissing, GeminiFailed, NonError}

\* The rows run r has left in the database.
RowsOf(r) ==
    {t \in transcripts : t.run = r} \cup {u \in utterances : u.run = r}
    \cup {s \in speakers : s.run = r} \cup {a \in analyses : a.run = r}

----
\* C1.  A run in which transcription and analysis both succeed writes the statuses
\* TRANSCRIBING, ANALYZING and COMPLETED, in that order, and no other: it has written
\* the first two when it reaches the save transaction and all three when it returns.
\* The transaction fails only when the meeting row is gone, and then there is no
\* meeting whose status could change.
C1_SuccessfulRunOrder ==
    \A r \in Reqs :
        /\ run[r].pc = "save" => log[r] = <<Transcribing, Analyzing>>
        /\ run[r].pc = "resolved" => log[r] = <<Transcribing, Analyzing, Completed>>
        /\ (run[r].pc \in {"catch", "rejected"} /\ thrown[r] = ForeignKeyFailed)
               => ~meeting.exists /\ log[r] = <<Transcribing, Analyzing>>

C1_Witness ==
    \E r \in Reqs :
        /\ run[r].pc = "resolved"
        /\ log[r] = <<Transcribing, Analyzing, Completed>>
        /\ meeting.exists /\ meeting.status = Completed

----
\* C2.  Every change of the status of the meeting is PENDING->TRANSCRIBING,
\* FAILED->TRANSCRIBING, TRANSCRIBING->ANALYZING, ANALYZING->COMPLETED or a failure
\* to FAILED; a COMPLETED meeting keeps its status.
AllowedTransitions ==
    {<<"PENDING", Transcribing>>, <<Failed, Transcribing>>, <<Transcribing, Analyzing>>,
     <<Analyzing, Completed>>, <<"PENDING", Failed>>, <<Transcribing, Failed>>,
     <<Analyzing, Failed>>}

C2_StatusTransitions ==
    [][(meeting.exists /\ meeting'.exists /\ meeting'.status # meeting.status)
           => <<meeting.status, meeting'.status>> \in AllowedTransitions]_vars

----
\* C3.  When the transcription step of a run fails, the run leaves the meeting FAILED
\* and the meeting has no Transcript and no Speaker rows.
C3_TranscriptionFailure ==
    [][\A r \in Reqs :
          (CatchStep(r) /\ thrown[r] \in TranscriptionErrors)
              => /\ meeting'.exists => meeting'.status = Failed
                 /\ transcripts' = {}
                 /\ speakers' = {}]_vars

----
\* C4.  When transcription succeeds and the analysis step of a run fails, the run
\* leaves the meeting FAILED, the meeting has no Analysis row, and the run has written
\* none of its Transcript, Utterance and Speaker rows.
C4_AnalysisFailure ==
    [][\A r \in Reqs :
          (CatchStep(r) /\ thrown[r] \in AnalysisErrors)
              => /\ meeting'.exists => meeting'.status = Failed
                 /\ analyses' = {}
                 /\ RowsOf(r)' = {}]_vars

----
----
\* C6.  A read of the meeting sees, of each run, either none of its rows or all of
\* them, and then with status COMPLETED and the duration, language and processedAt
\* that run has set.
AllRowsOf(r) ==
    \E t \in transcripts :
        /\ t.run = r
        /\ {u \in utterances : u.run = r}
               = {[run |-> r, orderIndex |-> i - 1, speakerIndex |-> t.fullText[i]]
                  : i \in DOMAIN t.fullText}
        /\ {sp.speakerIndex : sp \in {x \in speakers : x.run = r}}
               = {t.fullText[i] : i \in DOMAIN t.fullText}
        /\ \E a \in analyses : a.run = r

C6_NoHalfWrittenResult ==
    \A r \in Reqs :
        \/ RowsOf(r) = {}
        \/ /\ AllRowsOf(r)
           /\ meeting.status = Completed
           /\ meeting.duration = r
           /\ meeting.language = r
           /\ meeting.processedAt = r

\* What holds of the rows alone: none or all of a run's rows, with the duration,
\* language and processedAt of that run.
RowsAreAtomic ==
    \A r \in Reqs :
        \/ RowsOf(r) = {}
        \/ /\ AllRowsOf(r)
           /\ meeting.duration = r
           /\ meeting.language = r
           /\ meeting.processedAt = r

----
\* C7.  A start-processing request of the owner that finds the meeting COMPLETED is
\* answered 400 "Meeting already processed", starts no run and leaves the meeting and
\* its rows as they are.
AlreadyProcessed == Response(400, "Meeting already processed")

C7_CompletedRejected ==
    [][\A r \in Reqs :
          (LookupStep(r) /\ meeting.exists /\ meeting.userId = req[r].user
               /\ meeting.status = Completed)
              => /\ req'[r].response = AlreadyProcessed
                 /\ run' = run
                 /\ UNCHANGED dbVars]_vars

C7_Witness ==
    \E r \in Reqs :
        /\ req[r].response = AlreadyProcessed
        /\ run[r].pc = "none"
        /\ meeting.exists /\ meeting.status = Completed
        /\ transcripts # {} /\ analyses # {}

----
\* C8.  A start-processing request of the owner that finds the meeting TRANSCRIBING
\* or ANALYZING is answered 400 "Meeting is already being processed" and starts no run.
AlreadyBeingProcessed == Response(400, "Meeting is already being processed")

C8_InFlightRejected ==
    [][\A r \in Reqs :
          (LookupStep(r) /\ meeting.exists /\ meeting.userId = req[r].user
               /\ meeting.status \in {Transcribing, Analyzing})
              => /\ req'[r].response = AlreadyBeingProcessed
                 /\ run' = run]_vars

C8_Witness ==
    \E r, q \in Reqs :
        /\ req[r].response = AlreadyBeingProcessed
        /\ run[r].pc = "none"
        /\ InFlight(q)
        /\ meeting.exists /\ meeting.status \in {Transcribing, Analyzing}

----
\* C9.  The trigger accepts every request of the owner that reads the status PENDING
\* or FAILED, whether or not another run for the meeting has been started: nothing but
\* the status read decides.  So two requests that both read the status before either
\* run has written TRANSCRIBING are both accepted and their runs overlap.
C9_NoClaimOnMeeting ==
    [][\A r \in Reqs :
          (LookupStep(r) /\ meeting.exists /\ meeting.userId = req[r].user
               /\ meeting.status \in {"PENDING", Failed})
              => /\ req'[r].response = Response(200, "Processing started")
                 /\ run'[r].pc = "find"
                 /\ \A q \in Reqs \ {r} : run'[q] = run[q]]_vars

C9_Witness ==
    \E r1, r2 \in Reqs :
        /\ r1 # r2
        /\ req[r1].response.status = 200
        /\ req[r2].response.status = 200
        /\ InFlight(r1) /\ log[r1] = <<>>
        /\ InFlight(r2) /\ log[r2] = <<>>
        /\ meeting.exists /\ meeting.status = "PENDING"

----
----
\* C11.  A run started from a FAILED meeting whose transcription and analysis both
\* succeed commits its transaction (the meeting row being there) with status COMPLETED,
\* and the Transcript, Utterance, Speaker and Analysis rows of the meeting are then
\* exactly the rows this run has produced: no row of an earlier attempt is left.
SaveStep(r) == run[r].pc = "save" /\ run'[r].pc = "resolved"

C11_RetryReplaces ==
    [][\A r \in Reqs :
          (run[r].pc = "save" /\ run'[r] # run[r] /\ meeting.exists)
              => /\ SaveStep(r)
                 /\ meeting'.status = Completed
                 /\ meeting'.processedAt = r
                 /\ transcripts' = {[run |-> r, fullText |-> run[r].result.utterances]}
                 /\ Cardinality(utterances') = Len(run[r].result.utterances)
                 /\ Cardinality(speakers') = Len(run[r].result.speakers)
                 /\ analyses' = {[run |-> r, summary |-> run[r].analysis.summary]}
                 /\ \A row \in transcripts' \cup utterances' \cup speakers' \cup analyses' :
                        row.run = r]_vars

C11_Witness ==
    \E r \in Reqs :
        /\ run[r].pc = "resolved"
        /\ meeting.exists /\ meeting.status = Completed
        /\ Cardinality(speakers) = 2
        /\ \A row \in transcripts \cup utterances \cup speakers \cup analyses : row.run = r

----
\* C12.  After a run has ended in FAILED nothing goes on for the meeting until a new
\* request is accepted: while the status is FAILED, a run that had written its first
\* status before that failure (so one accepted before it) takes no step.
Ended(r) == run[r].pc \in {"resolved", "rejected", "logged"}

C12_FailureHaltsChain ==
    [][\A q \in Reqs :
          (meeting.exists /\ meeting.status = Failed /\ InFlight(q) /\ log[q] # <<>>)
              => run'[q] = run[q]]_vars

\* What holds of each run alone: processMeeting is invoked for the accepted requests
\* and no others, a run that has ended takes no pipeline step and writes nothing, and
\* no run comes back to a step it has left.
PipelineOrder ==
    <<"find", "setTranscribing", "getKey", "readFile", "upload", "create", "poll",
      "setAnalyzing", "geminiKey", "generate", "save", "catch", "resolved", "rejected",
      "logged">>

PositionOf(pc) == CHOOSE i \in DOMAIN PipelineOrder : PipelineOrder[i] = pc

EachRunOnce ==
    [][\A r \in Reqs :
          /\ (run[r].pc = "none" /\ run'[r].pc # "none")
                 => LookupStep(r) /\ req'[r].response.status = 200
          /\ (LookupStep(r) /\ req'[r].response.status = 200) => run'[r].pc = "find"
          /\ (run[r].pc # "none" /\ run'[r].pc # run[r].pc)
                 => PositionOf(run'[r].pc) > PositionOf(run[r].pc)
          /\ Ended(r) => Ended(r)' /\ (log'[r] = log[r] \/ log'[r] = <<>>)]_vars

----
\* C13.  pollTranscript has returned only if the last answer said completed, and has
\* thrown only if the last answer was not ok (the polling error) or said error (the
\* error with the provider's message); after every other answer it polls again, 3 s
\* later, however many polls it has made.  All that time the run stays in
\* pollTranscript and the meeting, as far as this run goes, in TRANSCRIBING.
Pending(answer) == answer.ok /\ answer.status \in {"queued", "processing"}

LastAnswer == call.answers[Len(call.answers)]

C13_PollUntilDone ==
    /\ call.pc = "returned"
           => LastAnswer.ok /\ LastAnswer.status = "completed" /\ call.value = LastAnswer
    /\ call.pc = "thrown"
           => \/ ~LastAnswer.ok /\ call.value[1] = "AssemblyAI polling failed: "
              \/ /\ LastAnswer.ok /\ LastAnswer.status = "error"
                 /\ call.value = <<"AssemblyAI transcription failed: ", LastAnswer.error>>
    /\ call.pc \in {"returned", "thrown"}
           => \A i \in 1..(Len(call.answers) - 1) : Pending(call.answers[i])
    /\ call.pc = "wait"
           => /\ \A i \in DOMAIN call.answers : Pending(call.answers[i])
              /\ call.waited = PollInterval * (Len(call.answers) - 1)
    /\ call.pc = "fetch"
           => /\ \A i \in DOMAIN call.answers : Pending(call.answers[i])
              /\ call.waited = PollInterval * Len(call.answers)
    /\ call.pc \in {"fetch", "wait"}
           => /\ run[1].pc = "poll"
              /\ meeting.status = Transcribing

C13_Witness ==
    /\ call.fn = "pollTranscript"
    /\ call.pc = "wait"
    /\ Len(call.answers) = MaxPolls
    /\ \A i \in DOMAIN call.answers : Pending(call.answers[i])
    /\ meeting.status = Transcribing

----
\* C14.  As claimed: of one user's start-processing requests, at most 5 pass the
\* limiter within any period of one minute (two consecutive ticks), and of the user's
\* uploads at most 10 within an hour; a request that does not pass is answered 429 and
\* its handler goes no further.
RECURSIVE Admitted(_, _)
Admitted(from, to) ==
    IF from > to THEN 0 ELSE call.admits[from] + Admitted(from + 1, to)

Largest(a, b) == IF a >= b THEN a ELSE b
Smallest(a, b) == IF a <= b THEN a ELSE b

FollowedKey == Key(call.kind, call.user)

----
\* C15.  The index given to an utterance is the number of different speaker ids that
\* appear in the call's utterances before the first appearance of its own id: the same
\* id gets the same index, a new id the next unused one, and A, B, A gives 0, 1, 0.
\* Mapped in one go (as the pipeline's result is) it comes to the same.
FirstAppearance(ids, id) == CHOOSE i \in DOMAIN ids : ids[i] = id /\ \A k \in 1..(i - 1) : ids[k] # id

RankOfFirstAppearance(ids, j) ==
    Cardinality({ids[k] : k \in 1..(FirstAppearance(ids, ids[j]) - 1)})

C15_FirstAppearanceRank ==
    call.fn = "mapSpeakers"
        => /\ \A j \in DOMAIN call.out : call.out[j] = RankOfFirstAppearance(call.ids, j)
           /\ \A j, k \in DOMAIN call.out :
                  (call.ids[j] = call.ids[k]) <=> (call.out[j] = call.out[k])
           /\ {call.out[j] : j \in DOMAIN call.out} = 0..(Cardinality(DOMAIN call.speakerMap) - 1)
           /\ Len(call.out) = Len(call.ids) => call.out = mapUtterances(call.ids)
           /\ (call.ids = <<"A", "B", "A">> /\ Len(call.out) = 3) => call.out = <<0, 1, 0>>

C15_Witness ==
    /\ call.fn = "mapSpeakers"
    /\ call.ids = <<"A", "B", "A">>
    /\ call.out = <<0, 1, 0>>

----
\* C16.  As claimed: the importance of a normalized topic is the number the model gave
\* clamped to 1..5 (0 and every number below it give 1, every number above 5 gives 5),
\* and only a missing importance gives the default 3.
Clamp(n) == IF n < 1 THEN 1 ELSE IF n > 5 THEN 5 ELSE n

Normalized == call.fn = "analyzeMeeting" /\ call.pc \in {"return", "returned"} /\ ~call.caught

C16_ImportanceClamped ==
    Normalized
        => \A i \in DOMAIN call.parsed.topics :
               LET given == call.jsonData.topics.items[i].importance
                   importance == call.parsed.topics[i].importance
               IN /\ given.type = "number" => importance = Num(Clamp(given.num))
                  /\ given = Undefined => importance = Num(3)
                  /\ importance = Num(3) => given \in {Undefined, JsNull, Num(3)}

\* What holds instead: every number but 0 is clamped, and 0 takes the default 3, as do
\* null and a missing importance.
ImportanceAsCoded ==
    Normalized
        => \A i \in DOMAIN call.parsed.topics :
               LET given == call.jsonData.topics.items[i].importance
                   importance == call.parsed.topics[i].importance
               IN /\ (given.type = "number" /\ given.num # 0)
                         => importance = Num(Clamp(given.num))
                  /\ given \in {Undefined, JsNull, Num(0)} => importance = Num(3)

----
\* C17.  As claimed: the priority of every normalized action item is high, medium or
\* low, and it is medium when the model gave none.
C17_PriorityOneOfThree ==
    Normalized
        => \A i \in DOMAIN call.parsed.actionItems :
               LET given == call.jsonData.actionItems.items[i].priority
                   priority == call.parsed.actionItems[i].priority
               IN /\ priority \in {Str("high"), Str("medium"), Str("low")}
                  /\ given = Undefined => priority = Str("medium")

\* What holds instead: a missing, null or empty priority becomes medium and every other
\* value is passed on as it came.
PriorityAsCoded ==
    Normalized
        => \A i \in DOMAIN call.parsed.actionItems :
               LET given == call.jsonData.actionItems.items[i].priority
                   priority == call.parsed.actionItems[i].priority
               IN IF given \in {Undefined, JsNull, Str("")}
                  THEN priority = Str("medium")
                  ELSE priority = given

----
\* C18.  When the response holds no JSON object, or what was extracted does not parse,
\* or its normalisation throws, analyzeMeeting does not throw: it returns the response
\* text as the summary with empty topics, action items and speaker names, and the run
\* goes on to its save transaction and leaves the meeting COMPLETED with that summary.
ParsingFails ==
    \/ jsonMatch(call.response) = <<>>
    \/ ~parses(jsonMatch(call.response))
    \/ normalizeThrows(call.jsonData)

C18_FallbackOnParseFailure ==
    call.fn = "analyzeMeeting"
        => /\ call.pc # "thrown"
           /\ (ParsingFails /\ call.pc \in {"return", "returned"})
                  => /\ call.caught
                     /\ call.parsed.summary = [type |-> "string", raw |-> call.response]
                     /\ call.parsed.topics = <<>>
                     /\ call.parsed.actionItems = <<>>
                     /\ call.parsed.speakerNames = {}
           /\ (ParsingFails /\ call.pc = "returned")
                  => /\ run[1].pc \in {"save", "resolved"}
                     /\ thrown[1] = NoErr
           /\ (ParsingFails /\ run[1].pc = "resolved")
                  => /\ meeting.status = Completed
                     /\ analyses = {[run |-> 1,
                                     summary |-> [type |-> "string", raw |-> call.response]]}
           /\ call.caught => ParsingFails

C18_Witness ==
    /\ call.fn = "analyzeMeeting"
    /\ call.caught
    /\ call.response = <<"{", "members", "}">>
    /\ call.jsonData.topics = Num(5)
    /\ run[1].pc = "resolved"
    /\ meeting.status = Completed
    /\ analyses = {[run |-> 1, summary |-> RawText(call.response)]}

----
\* C19.  No run reads the audio file, uploads, creates a job or polls without an
\* AssemblyAI key, and none calls the model without a Gemini key: with the key missing
\* the client throws its "API key not configured" error at once, and the run's catch
\* branch leaves the meeting (the row being there) FAILED with that message.
KeyMissing == {AssemblyKeyMissing, GeminiKeyMissing}

C19_MissingKeyFailsFirst ==
    [][\A r \in Reqs :
          /\ run'[r].pc \in {"readFile", "upload", "create", "poll", "generate"}
                 => run'[r].apiKey # Null
          /\ (thrown'[r] \in KeyMissing /\ thrown[r] \notin KeyMissing)
                 => /\ run[r].pc = (IF thrown'[r] = AssemblyKeyMissing THEN "getKey"
                                    ELSE "geminiKey")
                    /\ run'[r].pc = "catch"
                    /\ UNCHANGED <<dbVars, fileExists>>
          /\ (CatchStep(r) /\ thrown[r] \in KeyMissing /\ meeting.exists)
                 => /\ meeting'.status = Failed
                    /\ meeting'.processingError = thrown[r].message
                    /\ meeting'.processingError
                           \in {"AssemblyAI API key not configured. Please add it in Settings.",
                                "Gemini API key not configured. Please add it in Settings."}]_vars

C19_Witness ==
    \E r \in Reqs :
        /\ run[r].pc = "rejected"
        /\ thrown[r] = AssemblyKeyMissing
        /\ log[r] = <<Transcribing, Failed>>
        /\ meeting.exists /\ meeting.status = Failed
        /\ meeting.processingError
               = "AssemblyAI API key not configured. Please add it in Settings."
        /\ fileExists

----
\* C20.  Once a DELETE of the meeting has succeeded, the meeting has no Transcript,
\* Utterance, Speaker or Analysis row in any later state, whatever the runs that were
\* in flight at the delete do afterwards.
C20_NoRowsAfterDelete ==
    (del # "idle" \/ ~meeting.exists)
        => /\ ~meeting.exists
           /\ transcripts = {}
           /\ utterances = {}
           /\ speakers = {}
           /\ analyses = {}

C20_Witness ==
    \E r, q \in Reqs :
        /\ del = "done"
        /\ run[r].pc = "rejected"
        /\ thrown[r] = ForeignKeyFailed
        /\ run[q].pc \in {"rejected", "logged"}
        /\ r # q
        /\ transcripts = {} /\ utterances = {} /\ speakers = {} /\ analyses = {}

----
\* C21.  As claimed: the speakers list holds every speaker index of the utterances
\* once, in ascending numeric order: for n speakers it is 0, 1, ..., n-1, also for more
\* than ten speakers.
Sorted == call.fn = "sortSpeakers" /\ call.left = {}

C21_SpeakersAscending ==
    Sorted
        => LET n == Len(call.speakers)
           IN /\ call.speakers = [i \in 1..n |-> i - 1]
              /\ {call.speakers[i] : i \in 1..n}
                     = {call.utterances[i] : i \in DOMAIN call.utterances}

\* What holds instead: the list holds every index once, is what speakersOf gives the
\* pipeline, and is ascending for up to ten speakers; with more, the indices stand in
\* the order of their decimal strings (0, 1, 10, 2, ...).
SpeakersAsCoded ==
    Sorted
        => LET n == Len(call.speakers)
           IN /\ {call.speakers[i] : i \in 1..n} = 0..(n - 1)
              /\ call.speakers = speakersOf(call.utterances)
              /\ n <= 10 => call.speakers = [i \in 1..n |-> i - 1]
              /\ n > 10 => call.speakers[3] = 10

----
\* C22.  As claimed: when the response is one JSON object with text before or after it,
\* whatever that text holds, analyzeMeeting returns the normalized fields of the object
\* and not the fallback (the normalisation of the object not throwing).
EmbeddedAt(response, i) ==
    /\ i + 2 \in DOMAIN response
    /\ SubSeq(response, i, i + 2) = <<"{", "members", "}">>
    /\ \A k \in DOMAIN response \ {i, i + 1, i + 2} : response[k] # "members"

Returned == call.fn = "analyzeMeeting" /\ call.pc \in {"return", "returned"}

C22_EmbeddedObjectParsed ==
    Returned
        => \A i \in DOMAIN call.response :
               (EmbeddedAt(call.response, i) /\ ~normalizeThrows(call.jsonData))
                   => /\ ~call.caught
                      /\ call.parsed = normalized(call.jsonData)

\* What holds instead: the object's fields are returned when the text around it holds
\* no brace; the match runs from the first opening brace of the response to its last
\* closing brace, so a brace in the text makes the parse fail and the fallback is returned.
ExtractionAsCoded ==
    Returned
        => \A i \in DOMAIN call.response :
               EmbeddedAt(call.response, i)
                   => IF \A k \in DOMAIN call.response \ {i, i + 1, i + 2} :
                             call.response[k] = "text"
                      THEN normalizeThrows(call.jsonData)
                           \/ (~call.caught /\ call.parsed = normalized(call.jsonData))
                      ELSE jsonMatch(call.response) # <<"{", "members", "}">>
                               => call.caught

----
\* C23.  As claimed: no two projects of a user ever have the same name, and a create
\* or rename that would make a duplicate is answered 409 and changes nothing.
UniqueNames(projects) ==
    \A p1, p2 \in projects : (p1.userId = p2.userId /\ p1.name = p2.name) => p1.id = p2.id

WouldDuplicate(q) ==
    existingProject(call.projects, call.reqs[q].user, Trim(call.reqs[q].name),
                    call.reqs[q].id) # {}

C23_DuplicateRejected409 ==
    [][call.fn = "projects"
          => /\ UniqueNames(call.projects')
             /\ \A q \in ProjectReqs :
                    (call.reqs[q].pc \in {"check", "write"} /\ call'.reqs[q].pc = "done"
                         /\ WouldDuplicate(q))
                        => /\ call'.reqs[q].status = 409
                           /\ call'.projects = call.projects]_vars

\* What holds instead: the names stay unique, and a duplicate is answered 409 when the
\* handler's own check finds it and 500 when it appears between the check and the write
\* (the unique key throws and the catch branch answers); nothing changes either way.
ProjectsAsCoded ==
    [][call.fn = "projects"
          => /\ UniqueNames(call.projects')
             /\ \A q \in ProjectReqs :
                    (call.reqs[q].pc \in {"check", "write"} /\ call'.reqs[q].pc = "done"
                         /\ WouldDuplicate(q))
                        => /\ call'.reqs[q].status
                                  = (IF call.reqs[q].pc = "check" THEN 409 ELSE 500)
                           /\ call'.projects = call.projects]_vars

----
\* C24.  As claimed: after a success response from start-processing the page goes on
\* re-fetching until it displays COMPLETED or FAILED.  In the form of a state predicate:
\* the page is never left, after the success response, with no fetch under way, no
\* interval set and a status on display that is not terminal (from such a state no step
\* of the page is possible, so it displays that status for ever).
PageAtRest == call.fn = "page" /\ call.posted /\ call.fetch = "none" /\ ~intervalSet(call.status)

C24_PageReachesTerminal == PageAtRest => call.status \in {"COMPLETED", "FAILED"}

\* What holds instead: a page that has displayed TRANSCRIBING or ANALYZING goes on to
\* display nothing but TRANSCRIBING, ANALYZING and the terminal statuses, and comes to
\* rest only on a terminal one; the page that comes to rest earlier displays PENDING,
\* fetched before the run's first write.
PollingAsCoded ==
    [][call.fn = "page"
          => /\ call.status \in {"TRANSCRIBING", "ANALYZING"}
                    => call'.status \in {"TRANSCRIBING", "ANALYZING", "COMPLETED", "FAILED"}
             /\ (PageAtRest' /\ call'.status \notin {"COMPLETED", "FAILED"})
                    => call'.status = "PENDING"]_vars

----
\* C25.  As claimed: with calls and database operations that return or throw and a job
\* that ends, on a meeting that is not deleted, a meeting in TRANSCRIBING or ANALYZING
\* comes to COMPLETED or FAILED.
StatusInFlight == meeting.status \in {Transcribing, Analyzing}
StatusTerminal == meeting.status \in {Completed, Failed}

RunReturned(r) == run[r].pc \in {"resolved", "rejected", "logged"}

----
\* C26.  As claimed: a COMPLETED meeting has processingError null, for every
\* interleaving of runs on the meeting.
C26_CompletedWithoutError == meeting.status = Completed => meeting.processingError = Null

\* What holds instead: the error is set only by a write of FAILED and cleared only by a
\* write of TRANSCRIBING; the writes of ANALYZING and of COMPLETED leave it as it is.
ErrorWrites ==
    [][meeting'.exists /\ meeting.exists /\ meeting'.processingError # meeting.processingError
          => \/ meeting'.status = Failed /\ meeting'.processingError # Null
             \/ meeting'.status = Transcribing /\ meeting'.processingError = Null]_vars

----
\* C27.  As claimed: a PATCH changes the label only of Speaker rows of the meeting it
\* names, and so never a Speaker of a meeting owned by another user.
C27_OnlyOwnSpeakers ==
    [][call.fn = "patch"
          => \A s \in SpeakerRows :
                 call'.labels[s] # call.labels[s]
                     => /\ meetingOf(s) = call.patch.meeting
                        /\ ownerOf(meetingOf(s)) = call.patch.user]_vars

\* What holds instead: the request that changes a label is by the owner of the meeting
\* it names, and the row it changes is the one whose id the body gives, whichever
\* meeting that row belongs to.
PatchAsCoded ==
    [][call.fn = "patch"
          => \A s \in SpeakerRows :
                 call'.labels[s] # call.labels[s]
                     => /\ ownerOf(call.patch.meeting) = call.patch.user
                        /\ call.patch.speakers # <<>>
                        /\ Head(call.patch.speakers) = [id |-> s, label |-> call'.labels[s]]]_vars

----
\* C28.  A start-processing request of a signed-in user is counted in the user's process
\* window before the meeting is looked up, and the lookup gives nothing back, whether it
\* answers 404, 403, 400 or 200; so the refused requests use up the window like the
\* accepted ones.
C28_CountedBeforeLookup ==
    [][\A r \in Reqs :
           /\ (req[r].pc = "start" /\ req'[r].pc = "lookup")
                  => LET key == Key("process", req'[r].user)
                     IN /\ store'[key].count
                               = (IF store[key] = NoEntry \/ now >= store[key].resetAt
                                  THEN 1
                                  ELSE store[key].count + 1)
                        /\ store'[key].count <= ProcessLimit
           /\ (req[r].pc = "start" /\ req'[r].pc = "done" /\ req'[r].response.status = 429)
                  => /\ store' = store
                     /\ \E user \in Users : store[Key("process", user)].count >= ProcessLimit
           /\ (req[r].pc = "lookup" /\ req'[r].pc = "done") => store' = store]_vars

\* A request refused after the lookup (404, 403 or 400) has taken the last place of the
\* window, and the next request of the user is answered 429.
C28_Witness ==
    /\ MaxReq >= 2
    /\ req[1].pc = "done"
    /\ req[1].response.status \in {400, 403, 404}
    /\ req[2].pc = "done"
    /\ req[2].response.status = 429

----
\* C29.  For every key and every sequence of checks with a limit of at least 1: the
\* stored count is between 1 and the limit, the remaining value returned is the limit
\* less the stored count and not negative, and a rejected check leaves the entry (count
\* and resetAt) as it was.
C29_CountWithinLimit ==
    [][call.fn = "limiter"
          => /\ \A key \in LimiterKeys :
                    store'[key] # NoEntry => store'[key].count \in 1..call.limit
             /\ \A key \in LimiterKeys :
                    LET result == checkResult(store[key], call.limit, call.windowMs)
                    IN (now' = now /\ call'.key = key /\ call'.result = result
                            /\ store' = [store EXCEPT
                                            ![key] = checkEntry(@, call.limit, call.windowMs)])
                           => /\ result.remaining = call.limit - store'[key].count
                              /\ result.remaining >= 0
                              /\ ~result.success => store'[key] = store[key]]_vars

\* A check has been rejected: the count of its key is at the limit.
C29_Witness ==
    /\ call.fn = "limiter"
    /\ call.key # Null
    /\ ~call.result.success
    /\ call.limit > 1
    /\ store[call.key].count = call.limit

----
\* C30.  In every save transaction the speaker of each utterance of the result is in the
\* result's speakers list (the lookup of its row id is defined), each Utterance row
\* written refers to a Speaker row written by the same transaction, and its orderIndex
\* is the utterance's position in the result, counted from 0.
C30_UtterancesReferenceSpeakers ==
    [][\A r \in Reqs :
           run[r].pc = "save"
               => LET result == run[r].result
                  IN /\ \A i \in DOMAIN result.utterances :
                            \E j \in DOMAIN result.speakers :
                                result.speakers[j] = result.utterances[i]
                     /\ run'[r].pc = "resolved"
                            => /\ \A u \in utterances' :
                                      /\ u.run = r
                                      /\ \E s \in speakers' :
                                             s.run = r /\ s.speakerIndex = u.speakerIndex
                               /\ \A i \in DOMAIN result.utterances :
                                      [run |-> r, orderIndex |-> i - 1,
                                       speakerIndex |-> result.utterances[i]] \in utterances'
                               /\ Cardinality(utterances') = Len(result.utterances)]_vars

\* A run has saved a result of several utterances by more than one speaker.
C30_Witness ==
    /\ \E r \in Reqs : run[r].pc = "resolved" /\ meeting.processedAt = r
    /\ Cardinality(utterances) > Cardinality(speakers)
    /\ Cardinality(speakers) > 1

====
